---- MODULE Spec2Model ----
(***************************************************************************)
(* A model of the istar docking worker (idock/src/main.cpp, box.hpp).      *)
(*                                                                         *)
(* Spec       the worker's main loop: job fetch, the per-ligand pipeline   *)
(*            (filter, grid-map creation on the fly, Monte Carlo fan-out,  *)
(*            merge, emit) and the thread pool that runs the tasks.        *)
(*                                                                         *)
(* SpecResults    the result lists of one ligand: the tasks' own lists and   *)
(*            the merged list, through add_to_result_container.            *)
(* SpecOrder  add_to_result_container over one input list in two orders.   *)
(* SpecGridMap    the partitioning of the box and the cells the grid-map   *)
(*            tasks compute from it.                                       *)
(* SpecLigands    the ligand loop of one slice: filter, docking, and the   *)
(*            csv it writes.                                               *)
(* SpecClaim  several workers fetching jobs from one job store.            *)
(* SpecSlices the look-ups of start_lig and end_lig in the slice table.    *)
(*                                                                         *)
(* Program constants that only size the state space are scaled down and    *)
(* named after the source: XS_TYPE_SIZE, num_mc_tasks (32 in the source)   *)
(* and max_results (20 in the source).                                     *)
(***************************************************************************)
EXTENDS Integers, Sequences, FiniteSets, TLC

\* ---------------------------------------------------------------- bounds
\* Number of XScore atom types (scaled).
XS_TYPE_SIZE == 2
\* Monte Carlo tasks per ligand (main.cpp:86 sets 32; scaled).
num_mc_tasks == 2
\* Results kept per container (main.cpp:112 sets 20; scaled).
max_results == 2
\* Worker threads of the pool (hardware_concurrency()).
num_threads == 2
\* Jobs in the job store.
MaxJobs == 2
\* Ligands in a slice: the model's slice is [0, MaxLigs).
MaxLigs == 2
\* Job documents: document d asks for receptor d and a box of d grids in x.
MaxGrids == 2
\* Period of the model's random number engine: two batches of seeds.
EngPeriod == 2 * num_mc_tasks

Types == 0 .. XS_TYPE_SIZE - 1
JobIds == 1 .. MaxJobs
Docs == 1 .. MaxGrids
\* The job store: job j holds document DocOf(j).
DocOf(j) == ((j - 1) % MaxGrids) + 1
Tasks == 1 .. num_mc_tasks

VARIABLES
    progress,               \* istar.jobs: job id -> progress
    pc,                     \* position of the main thread
    job,                    \* the fetched job: [id, doc]
    lig_i,                  \* ligand index i of the slice loop
    lig,                    \* the parsed ligand
    grid_maps,              \* vector<array3d<fl>> grid_maps(XS_TYPE_SIZE)
    atom_types_to_populate, \* types whose maps the current ligand creates
    gm_tasks,               \* ptr_vector<packaged_task<void>> gm_tasks
    mc_tasks,               \* ptr_vector<packaged_task<void>> mc_tasks
    gi,                     \* index of the main thread's future.get() loops
    result_containers,      \* one result list per Monte Carlo task
    results,                \* the merged result list of the ligand
    eng,                    \* the Mersenne Twister engine
    gm_dispatches,          \* history: per type, dispatches in this job
    lig_missing,            \* history: types uninitialized when the ligand came
    gm_writes,              \* history: writes per <<type, x>> in this batch
    \* SpecResults: the result lists of one ligand
    rc_pc,                  \* "mc": a task fills its list; "front": merged
    rc_i,                   \* the Monte Carlo task at work, then merged
    rc_n,                   \* conformations this task has accepted so far
    rc_out,                 \* result_containers[rc_i]
    rc_results,             \* results, the merged list
    \* SpecOrder: one input list in two insertion orders
    ord_x, ord_y,           \* what is still to insert, in either order
    ord_cx, ord_cy,         \* the two containers
    \* SpecGridMap: the numbers of one grid-map dispatch
    geo_pc,                 \* "start", "tasks", "done"
    geo_box,                \* const box b
    geo_rec,                \* const receptor rec: its atoms
    geo_partitions,         \* array3d<vector<size_t>> partitions
    geo_maps,               \* grid_maps of the types to populate
    geo_x,                  \* grid-map tasks 0 .. geo_x - 1 have run
    \* SpecLigands: the ligand loop of one slice and its csv
    sl_pc,                  \* "ligand", "filter", "emit", "dump", "closed", "aborted"
    sl_doc,                 \* the job document p
    sl_i,                   \* ligands of the slice handled so far
    line,                   \* string line: the filtered fields of the first line
    sl_lig,                 \* ligand lig
    sl_maps,                \* grid_maps
    sl_eng,                 \* position of the random number engine eng
    sl_dispatched,          \* history: tasks handed to the pool so far
    sl_results,             \* results, the merged list
    best_result,            \* result& best_result
    csv,                    \* what was written to csv: records and '\n'
    survivors,              \* history: ligands that passed with a result
    \* SpecClaim: several workers and one job store
    cl_progress,            \* progress of each job of istar.jobs
    cl_pc,                  \* per worker: "fetch", "sleep", "update", "slice"
    cl_job,                 \* per worker: the job its cursor returned
    cl_takers,              \* history: per job, the workers that executed it
    cl_incs,                \* history: per job, the $inc updates applied
    \* SpecSlices: the slice table look-ups of one job
    st_pc,                  \* "start", "read"
    st_s,                   \* const size_t s
    st_start_lig,           \* const size_t start_lig
    st_end_lig              \* const size_t end_lig

wvars == <<progress, pc, job, lig_i, lig, grid_maps, atom_types_to_populate,
           gm_tasks, mc_tasks, gi, result_containers, results, eng,
           gm_dispatches, lig_missing, gm_writes>>
rcvars == <<rc_pc, rc_i, rc_n, rc_out, rc_results>>
ordvars == <<ord_x, ord_y, ord_cx, ord_cy>>
geovars == <<geo_pc, geo_box, geo_rec, geo_partitions, geo_maps, geo_x>>
slvars == <<sl_pc, sl_doc, sl_i, line, sl_lig, sl_maps, sl_eng, sl_dispatched,
            sl_results, best_result, csv, survivors>>
clvars == <<cl_progress, cl_pc, cl_job, cl_takers, cl_incs>>
stvars == <<st_pc, st_s, st_start_lig, st_end_lig>>
jobvars == <<slvars, clvars, stvars>>
\* What the worker's steps leave alone.
side == <<rcvars, ordvars, geovars, jobvars>>
vars == <<wvars, rcvars, ordvars, geovars, jobvars>>

\* ------------------------------------------------------------------ box
\* The box of job document d: d grids along x, one along y and z.
JobBox(d) == [num_grids |-> <<d, 1, 1>>]

\* box::num_probes: one probe more than grids in every dimension.
num_probes(b) == [d \in 1 .. 3 |-> b.num_grids[d] + 1]

\* ------------------------------------------------------------ grid maps
\* An array3d<fl> that was never resized.
EmptyMap == [n |-> <<0, 0, 0>>, data |-> <<>>]

\* array3d::initialized()
initialized(m) == m.data # <<>>

\* The content of a zero-filled x-slab.
Zero == 0

\* array3d::resize(n): n[0] x-slabs, all cells zero.
resize(n) == [n |-> n, data |-> [x \in 1 .. n[1] |-> Zero]]

\* What a grid-map task bound to (rec, b, partitions) of document d leaves in
\* every cell of its x-slab: the energy sums against that receptor in that box.
SlabOf(d) == d

\* The types the ligand needs whose map is not initialized.
MissingTypes_all(l, maps) == l.types

MissingTypes(l, maps) == {t \in l.types : ~initialized(maps[t])}

\* The resize loop: every missing type's map is sized to num_probes.
ResizedMaps(maps, missing, b) ==
    [t \in Types |-> IF t \in missing THEN resize(num_probes(b)) ELSE maps[t]]

\* ---------------------------------------------------------------- pool
num_gm_tasks_y(b) == num_probes(b)[2]

num_gm_tasks(b) == num_probes(b)[1]

\* One task per x in [0, num_gm_tasks).
NewGmTasks(n) == [k \in 1 .. n |-> [x |-> k - 1, st |-> "queued"]]

Running(ts) == {k \in DOMAIN ts : ts[k].st = "running"}
Finished(ts) == {k \in DOMAIN ts : ts[k].st \in {"done", "failed"}}

\* thread_pool: a worker is free and k is the head of the FIFO queue.
CanStart(ts, k) ==
    /\ k \in DOMAIN ts
    /\ ts[k].st = "queued"
    /\ \A j \in 1 .. k - 1 : ts[j].st # "queued"
    /\ Cardinality(Running(gm_tasks)) + Cardinality(Running(mc_tasks)) < num_threads

\* thread_pool::sync(): every dispatched task has finished.
PoolIdle(ts) == Finished(ts) = DOMAIN ts

\* ------------------------------------------------------------- results
\* A result: the heavy-atom positions (one heavy atom on a line) and the
\* total energy f.
Result(p, e) == [pos |-> p, f |-> e]

\* Squared displacement of the heavy atoms of two results.
distance_sqr(r, q) == (r.pos - q.pos) * (r.pos - q.pos)

\* required_square_error = 4 * lig.num_heavy_atoms
required_square_error(l) == 4 * l.num_heavy_atoms

\* Index of the first element of c in the same cluster as r, 0 if none.
FirstSameCluster(c, r, S) ==
    IF \E k \in 1 .. Len(c) : distance_sqr(c[k], r) < S
    THEN CHOOSE k \in 1 .. Len(c) :
            /\ distance_sqr(c[k], r) < S
            /\ \A j \in 1 .. k - 1 : ~(distance_sqr(c[j], r) < S)
    ELSE 0

\* r inserted in sorted position (after the elements with f <= r.f).
SortedInsert(c, r) ==
    LET k == Cardinality({j \in 1 .. Len(c) : c[j].f <= r.f})
    IN  SubSeq(c, 1, k) \o <<r>> \o SubSeq(c, k + 1, Len(c))

\* Sort by f ascending (insertion sort; equal f keep their order).
RECURSIVE SortByF(_)
SortByF(c) ==
    IF c = <<>> THEN <<>>
    ELSE SortedInsert(SortByF(SubSeq(c, 1, Len(c) - 1)), c[Len(c)])

\* result_containers[i].reserve(max_results): what a task's list can hold.
task_results_capacity_merged == max_results * num_mc_tasks

task_results_capacity == max_results

\* results.reserve(max_results * num_mc_tasks): what the merged list can hold.
results_capacity == max_results * num_mc_tasks

\* add_to_result_container(results, r, required_square_error).  The call
\* passes no bound: the container is full at its reserved capacity cap,
\* max_results for the output list of a Monte Carlo task.
add_to_result_container(c, r, S, cap) ==
    LET k == FirstSameCluster(c, r, S)
    IN  IF k # 0
        THEN IF c[k].f <= r.f
             THEN c
             ELSE SortByF([c EXCEPT ![k] = r])
        ELSE LET ins == SortedInsert(c, r)
             IN  IF Len(ins) > cap
                 THEN SubSeq(ins, 1, Len(ins) - 1)
                 ELSE ins

\* add_to_result_container over the elements of rs, in order.
RECURSIVE AddAll(_, _, _, _)
AddAll(c, rs, S, cap) ==
    IF rs = <<>> THEN c
    ELSE AddAll(add_to_result_container(c, Head(rs), S, cap), Tail(rs), S, cap)

\* The inner merge loop of main: every result of one task, j = 0, 1, ...
MergeTaskResults_append(res, task_results, S) == res \o task_results

MergeTaskResults(res, task_results, S) ==
    AddAll(res, task_results, S, results_capacity)

\* The conformations a Monte Carlo task accepts, decided by its seed: some
\* seeds find one, some find several, the others find none.
MCCandidates(seed) ==
    IF seed >= 2 THEN <<>>
    ELSE IF seed = 0 THEN <<Result(4, 1)>>
    ELSE <<Result(1, 2), Result(2, 1), Result(5, 2)>>

\* monte_carlo_task: every accepted conformation goes through
\* add_to_result_container into the task's own list.
monte_carlo_task(l, seed) ==
    AddAll(<<>>, MCCandidates(seed), required_square_error(l), task_results_capacity)

\* ------------------------------------------------------------------ Init
NoJob == [id |-> 0, doc |-> 1]
NoLigand == [types |-> {}, num_heavy_atoms |-> 1]
NoWrites == [c \in {} |-> 0]
NoLine == <<>>
NoResult == [held |-> FALSE, e_nd |-> 0]

\* The state of the side specifications while the worker runs.
RcIdle ==
    /\ rc_pc = "idle" /\ rc_i = 0 /\ rc_n = 0
    /\ rc_out = <<>> /\ rc_results = <<>>
OrdIdle ==
    /\ ord_x = <<>> /\ ord_y = <<>>
    /\ ord_cx = <<>> /\ ord_cy = <<>>

GeoIdle ==
    /\ geo_pc = "idle" /\ geo_box = <<>> /\ geo_rec = <<>>
    /\ geo_partitions = <<>> /\ geo_maps = <<>> /\ geo_x = 0

SlIdle ==
    /\ sl_pc = "idle" /\ sl_doc = 0 /\ sl_i = 0 /\ line = NoLine
    /\ sl_lig = NoLigand /\ sl_maps = <<>> /\ sl_eng = 0 /\ sl_dispatched = 0
    /\ sl_results = <<>> /\ best_result = NoResult /\ csv = <<>>
    /\ survivors = <<>>

ClIdle ==
    /\ cl_progress = <<>> /\ cl_pc = <<>> /\ cl_job = <<>>
    /\ cl_takers = <<>> /\ cl_incs = <<>>

StIdle ==
    /\ st_pc = "idle" /\ st_s = 0 /\ st_start_lig = 0 /\ st_end_lig = 0

JobIdle == SlIdle /\ ClIdle /\ StIdle

\* The worker after construction: the pool, the scoring function and the
\* empty grid maps exist, no job was fetched.
WorkerInit ==
    /\ progress = [j \in JobIds |-> 0]
    /\ pc = "fetch"
    /\ job = NoJob
    /\ lig_i = 0
    /\ lig = NoLigand
    /\ grid_maps = [t \in Types |-> EmptyMap]
    /\ atom_types_to_populate = {}
    /\ gm_tasks = <<>>
    /\ mc_tasks = <<>>
    /\ gi = 0
    /\ result_containers = [i \in Tasks |-> <<>>]
    /\ results = <<>>
    /\ eng = 0
    /\ gm_dispatches = [t \in Types |-> 0]
    /\ lig_missing = {}
    /\ gm_writes = NoWrites

Init == WorkerInit /\ RcIdle /\ OrdIdle /\ GeoIdle /\ JobIdle

\* ---------------------------------------------------------- main thread
\* c.query("istar.jobs", QUERY("progress" << 0), 1): a pending job, if any.
Query ==
    /\ pc = "fetch"
    /\ \E j \in JobIds :
          /\ progress[j] = 0
          /\ \A k \in 1 .. j - 1 : progress[k] # 0
          /\ job' = [id |-> j, doc |-> DocOf(j)]
    /\ pc' = "update"
    /\ UNCHANGED <<side, progress, lig_i, lig, grid_maps, atom_types_to_populate,
                   gm_tasks, mc_tasks, gi, result_containers, results, eng,
                   gm_dispatches, lig_missing, gm_writes>>

\* No pending job: sleep for an hour and query again.
Sleep ==
    /\ pc = "fetch"
    /\ \A j \in JobIds : progress[j] # 0
    /\ pc' = "sleep"
    /\ UNCHANGED <<side, progress, job, lig_i, lig, grid_maps, atom_types_to_populate,
                   gm_tasks, mc_tasks, gi, result_containers, results, eng,
                   gm_dispatches, lig_missing, gm_writes>>

Wake ==
    /\ pc = "sleep"
    /\ pc' = "fetch"
    /\ UNCHANGED <<side, progress, job, lig_i, lig, grid_maps, atom_types_to_populate,
                   gm_tasks, mc_tasks, gi, result_containers, results, eng,
                   gm_dispatches, lig_missing, gm_writes>>

\* $inc progress, then the job's locals: box, receptor, partitions, the empty
\* task and result containers, and the slice loop at start_lig.
Update ==
    /\ pc = "update"
    /\ progress' = [progress EXCEPT ![job.id] = @ + 1]
    /\ gm_tasks' = <<>>
    /\ mc_tasks' = <<>>
    /\ result_containers' = [i \in Tasks |-> <<>>]
    /\ results' = <<>>
    /\ atom_types_to_populate' = {}
    /\ lig_i' = 0
    /\ pc' = "ligand"
    /\ gm_dispatches' = [t \in Types |-> 0]
    /\ lig_missing' = {}
    /\ gm_writes' = NoWrites
    /\ UNCHANGED <<side, job, lig, grid_maps, gi, eng>>

\* The slice is exhausted: close the files and fetch the next job.
SliceDone ==
    /\ pc = "ligand"
    /\ lig_i = MaxLigs
    /\ pc' = "fetch"
    /\ job' = NoJob
    /\ lig_i' = 0
    /\ gm_dispatches' = [t \in Types |-> 0]
    /\ UNCHANGED <<side, progress, lig, grid_maps, atom_types_to_populate,
                   gm_tasks, mc_tasks, gi, result_containers, results, eng,
                   lig_missing, gm_writes>>

\* The ligand fails a range filter: continue.
FilterSkip ==
    /\ pc = "ligand"
    /\ lig_i < MaxLigs
    /\ lig_i' = lig_i + 1
    /\ UNCHANGED <<side, progress, pc, job, lig, grid_maps, atom_types_to_populate,
                   gm_tasks, mc_tasks, gi, result_containers, results, eng,
                   gm_dispatches, lig_missing, gm_writes>>

\* The ligand passes the filters and is parsed.
ParseLigand ==
    /\ pc = "ligand"
    /\ lig_i < MaxLigs
    /\ \E ts \in SUBSET Types :
          /\ ts # {}
          /\ lig' = [types |-> ts, num_heavy_atoms |-> 1]
    /\ pc' = "resize"
    /\ UNCHANGED <<side, progress, job, lig_i, grid_maps, atom_types_to_populate,
                   gm_tasks, mc_tasks, gi, result_containers, results, eng,
                   gm_dispatches, lig_missing, gm_writes>>

\* Create grid maps on the fly if necessary: the initialized()/resize loop.
ResizeMaps ==
    /\ pc = "resize"
    /\ LET missing == MissingTypes(lig, grid_maps)
           b == JobBox(job.doc)
       IN  /\ atom_types_to_populate' = missing
           /\ grid_maps' = ResizedMaps(grid_maps, missing, b)
           /\ gm_writes' = [c \in missing \X (1 .. num_probes(b)[1]) |-> 0]
           /\ pc' = IF missing = {} THEN "mc_create" ELSE "gm_create"
    /\ lig_missing' = {t \in lig.types : ~initialized(grid_maps[t])}
    /\ UNCHANGED <<side, progress, job, lig_i, lig, gm_tasks, mc_tasks, gi,
                   result_containers, results, eng, gm_dispatches>>

\* Populate the grid map task container and tp.run(gm_tasks).
CreateGmTasks ==
    /\ pc = "gm_create"
    /\ gm_tasks' = NewGmTasks(num_gm_tasks(JobBox(job.doc)))
    /\ gm_dispatches' = [t \in Types |->
            gm_dispatches[t] + (IF t \in atom_types_to_populate THEN 1 ELSE 0)]
    /\ gi' = 0
    /\ pc' = "gm_get"
    /\ UNCHANGED <<side, progress, job, lig_i, lig, grid_maps, atom_types_to_populate,
                   mc_tasks, result_containers, results, eng, lig_missing,
                   gm_writes>>

\* gm_tasks[i].get_future().get(): blocks until task i has finished and
\* rethrows what it threw; nothing in main catches it.
GmGet ==
    /\ pc = "gm_get"
    /\ gi < Len(gm_tasks)
    /\ gm_tasks[gi + 1].st \in {"done", "failed"}
    /\ IF gm_tasks[gi + 1].st = "failed"
       THEN pc' = "aborted" /\ gi' = gi
       ELSE /\ gi' = gi + 1
            /\ pc' = IF gi + 1 = Len(gm_tasks) THEN "gm_sync" ELSE "gm_get"
    /\ UNCHANGED <<side, progress, job, lig_i, lig, grid_maps, atom_types_to_populate,
                   gm_tasks, mc_tasks, result_containers, results, eng,
                   gm_dispatches, lig_missing, gm_writes>>

\* tp.sync(); gm_tasks.clear(); atom_types_to_populate.clear();
GmSync ==
    /\ pc = "gm_sync"
    /\ PoolIdle(gm_tasks)
    /\ gm_tasks' = <<>>
    /\ atom_types_to_populate' = {}
    /\ pc' = "mc_create"
    /\ UNCHANGED <<side, progress, job, lig_i, lig, grid_maps, mc_tasks, gi,
                   result_containers, results, eng, gm_dispatches, lig_missing,
                   gm_writes>>

\* The main thread's wait for the grid-map batch.
GmWait_none ==
    /\ pc = "gm_get"
    /\ gm_tasks' = <<>>
    /\ atom_types_to_populate' = {}
    /\ pc' = "mc_create"
    /\ UNCHANGED <<side, progress, job, lig_i, lig, grid_maps, mc_tasks, gi,
                   result_containers, results, eng, gm_dispatches, lig_missing,
                   gm_writes>>

\* The main thread goes on to the Monte Carlo stage while the batch runs.
GmWait_skip ==
    /\ pc = "gm_get"
    /\ pc' = "mc_create"
    /\ UNCHANGED <<side, progress, job, lig_i, lig, grid_maps, atom_types_to_populate,
                   gm_tasks, mc_tasks, gi, result_containers, results, eng,
                   gm_dispatches, lig_missing, gm_writes>>

GmWait == GmGet \/ GmSync

\* Populate the Monte Carlo task container, one seed eng() per task, and
\* tp.run(mc_tasks).
CreateMcTasks ==
    /\ pc = "mc_create"
    /\ mc_tasks' = [i \in Tasks |->
                      [seed |-> (eng + i - 1) % EngPeriod, st |-> "queued"]]
    /\ eng' = (eng + num_mc_tasks) % EngPeriod
    /\ gi' = 0
    /\ pc' = "merge"
    /\ UNCHANGED <<side, progress, job, lig_i, lig, grid_maps, atom_types_to_populate,
                   gm_tasks, result_containers, results, gm_dispatches,
                   lig_missing, gm_writes>>

\* The merge of task i's list without the wait for its future.
MergeGet_nowait ==
    /\ pc = "merge"
    /\ gi < Len(mc_tasks)
    /\ results' = MergeTaskResults(results, result_containers[gi + 1],
                                   required_square_error(lig))
    /\ result_containers' = [result_containers EXCEPT ![gi + 1] = <<>>]
    /\ gi' = gi + 1
    /\ pc' = IF gi + 1 = Len(mc_tasks) THEN "mc_sync" ELSE "merge"
    /\ UNCHANGED <<side, progress, job, lig_i, lig, grid_maps, atom_types_to_populate,
                   gm_tasks, mc_tasks, eng, gm_dispatches, lig_missing,
                   gm_writes>>

\* mc_tasks[i].get_future().get(), then the results of task i are added to
\* the merged list and task_results.clear().
MergeGet ==
    /\ pc = "merge"
    /\ gi < Len(mc_tasks)
    /\ mc_tasks[gi + 1].st = "done"
    /\ results' = MergeTaskResults(results, result_containers[gi + 1],
                                   required_square_error(lig))
    /\ result_containers' = [result_containers EXCEPT ![gi + 1] = <<>>]
    /\ gi' = gi + 1
    /\ pc' = IF gi + 1 = Len(mc_tasks) THEN "mc_sync" ELSE "merge"
    /\ UNCHANGED <<side, progress, job, lig_i, lig, grid_maps, atom_types_to_populate,
                   gm_tasks, mc_tasks, eng, gm_dispatches, lig_missing,
                   gm_writes>>

\* tp.sync(); mc_tasks.clear();
McSync ==
    /\ pc = "mc_sync"
    /\ PoolIdle(mc_tasks)
    /\ mc_tasks' = <<>>
    /\ pc' = "emit"
    /\ UNCHANGED <<side, progress, job, lig_i, lig, grid_maps, atom_types_to_populate,
                   gm_tasks, gi, result_containers, results, eng, gm_dispatches,
                   lig_missing, gm_writes>>

\* No conformation found: continue with the next ligand.
SkipEmpty ==
    /\ pc = "emit"
    /\ results = <<>>
    /\ lig_i' = lig_i + 1
    /\ lig' = NoLigand
    /\ gi' = 0
    /\ lig_missing' = {}
    /\ gm_writes' = NoWrites
    /\ pc' = "ligand"
    /\ UNCHANGED <<side, progress, job, grid_maps, atom_types_to_populate,
                   gm_tasks, mc_tasks, result_containers, results, eng,
                   gm_dispatches>>

\* The csv line without results.clear().
Emit_noclear ==
    /\ pc = "emit"
    /\ results # <<>>
    /\ lig_i' = lig_i + 1
    /\ lig' = NoLigand
    /\ gi' = 0
    /\ lig_missing' = {}
    /\ gm_writes' = NoWrites
    /\ pc' = "ligand"
    /\ UNCHANGED <<side, progress, job, grid_maps, atom_types_to_populate,
                   gm_tasks, mc_tasks, result_containers, results, eng,
                   gm_dispatches>>

\* best_result = results.front(); results.clear(); the csv line; the
\* ligand goes out of scope.
Emit ==
    /\ pc = "emit"
    /\ results # <<>>
    /\ results' = <<>>
    /\ lig_i' = lig_i + 1
    /\ lig' = NoLigand
    /\ gi' = 0
    /\ lig_missing' = {}
    /\ gm_writes' = NoWrites
    /\ pc' = "ligand"
    /\ UNCHANGED <<side, progress, job, grid_maps, atom_types_to_populate,
                   gm_tasks, mc_tasks, result_containers, eng,
                   gm_dispatches>>

\* --------------------------------------------------------- pool workers
\* Nothing in main catches what get() rethrows: the process ends there, and
\* its pool threads with it.
ProcessAlive == pc # "aborted"

\* A free worker pops the next grid-map task.
GmTaskStart ==
    \E k \in DOMAIN gm_tasks :
        /\ ProcessAlive
        /\ CanStart(gm_tasks, k)
        /\ gm_tasks' = [gm_tasks EXCEPT ![k].st = "running"]
        /\ UNCHANGED <<side, progress, pc, job, lig_i, lig, grid_maps,
                       atom_types_to_populate, mc_tasks, gi, result_containers,
                       results, eng, gm_dispatches, lig_missing, gm_writes>>

\* grid_map_task(grid_maps, atom_types_to_populate, x, sf, b, rec, partitions)
\* runs to its end: every cell of slab x of every type to populate is written.
GmTaskFinish ==
    \E k \in DOMAIN gm_tasks :
        /\ ProcessAlive
        /\ gm_tasks[k].st = "running"
        /\ LET x == gm_tasks[k].x + 1
               hit == {t \in atom_types_to_populate : x \in DOMAIN grid_maps[t].data}
           IN  /\ grid_maps' = [t \in Types |->
                      IF t \in hit
                      THEN [grid_maps[t] EXCEPT !.data[x] = SlabOf(job.doc)]
                      ELSE grid_maps[t]]
               /\ gm_writes' = [c \in DOMAIN gm_writes |->
                      IF c[1] \in hit /\ c[2] = x
                      THEN gm_writes[c] + 1 ELSE gm_writes[c]]
        /\ gm_tasks' = [gm_tasks EXCEPT ![k].st = "done"]
        /\ UNCHANGED <<side, progress, pc, job, lig_i, lig, atom_types_to_populate,
                       mc_tasks, gi, result_containers, results, eng,
                       gm_dispatches, lig_missing>>

\* The task throws; the exception is kept in its future.
GmTaskFail ==
    \E k \in DOMAIN gm_tasks :
        /\ ProcessAlive
        /\ gm_tasks[k].st = "running"
        /\ gm_tasks' = [gm_tasks EXCEPT ![k].st = "failed"]
        /\ UNCHANGED <<side, progress, pc, job, lig_i, lig, grid_maps,
                       atom_types_to_populate, mc_tasks, gi, result_containers,
                       results, eng, gm_dispatches, lig_missing, gm_writes>>

\* A free worker pops the next Monte Carlo task.
McTaskStart ==
    \E k \in DOMAIN mc_tasks :
        /\ CanStart(mc_tasks, k)
        /\ mc_tasks' = [mc_tasks EXCEPT ![k].st = "running"]
        /\ UNCHANGED <<side, progress, pc, job, lig_i, lig, grid_maps,
                       atom_types_to_populate, gm_tasks, gi, result_containers,
                       results, eng, gm_dispatches, lig_missing, gm_writes>>

\* A map the ligand uses is smaller than the job's num_probes: the task's
\* lookups by this box's grid index leave the array.
ReadsOutOfRange(l, maps, b) ==
    \E t \in l.types : \E d \in 1 .. 3 : maps[t].n[d] < num_probes(b)[d]

\* monte_carlo_task(result_containers[i], lig, seed, ...) runs to its end.
\* What it leaves after reading outside a map is any list it can produce.
McTaskFinish ==
    \E k \in DOMAIN mc_tasks :
        /\ mc_tasks[k].st = "running"
        /\ \E out \in {monte_carlo_task(lig, mc_tasks[k].seed)} \cup
                       (IF ReadsOutOfRange(lig, grid_maps, JobBox(job.doc))
                        THEN {monte_carlo_task(lig, sd) : sd \in 0 .. EngPeriod - 1}
                        ELSE {}) :
              result_containers' = [result_containers EXCEPT ![k] = out]
        /\ mc_tasks' = [mc_tasks EXCEPT ![k].st = "done"]
        /\ UNCHANGED <<side, progress, pc, job, lig_i, lig, grid_maps,
                       atom_types_to_populate, gm_tasks, gi, results, eng,
                       gm_dispatches, lig_missing, gm_writes>>

Next ==
    \/ Query \/ Sleep \/ Wake \/ Update
    \/ SliceDone \/ FilterSkip \/ ParseLigand
    \/ ResizeMaps \/ CreateGmTasks \/ GmWait
    \/ CreateMcTasks \/ MergeGet \/ McSync \/ SkipEmpty \/ Emit
    \/ GmTaskStart \/ GmTaskFinish \/ GmTaskFail
    \/ McTaskStart \/ McTaskFinish

Spec == Init /\ [][Next]_vars

\* ------------------------------------------------------ claims under Spec
McStarted == \E k \in DOMAIN mc_tasks : mc_tasks[k].st # "queued"

\* The cells one grid-map task writes: slab x of every type to populate.
GmWriteSet(task) == atom_types_to_populate \X {task.x + 1}

\* C1: within one job every atom type is in at most one grid-map dispatch,
\* and a ligand whose types were all initialized when it came has no
\* grid-map task dispatched for it.
C1_PopulatedAtMostOnce ==
    /\ \A t \in Types : gm_dispatches[t] <= 1
    /\ lig_missing = {} => gm_tasks = <<>>
    /\ gm_tasks # <<>> => atom_types_to_populate = lig_missing

\* A ligand of a job that already populated one of its types reaches the
\* Monte Carlo stage with nothing to populate.
C1_Witness ==
    /\ pc = "mc_create"
    /\ lig_missing = {}
    /\ \E t \in lig.types : gm_dispatches[t] = 1

\* C2: a map a running Monte Carlo task consumes has the dimensions of this
\* job's box and holds the sums of this job's receptor and box.
C2_MapOfThisJob ==
    \A k \in DOMAIN mc_tasks :
        mc_tasks[k].st = "running" =>
            \A t \in lig.types :
                /\ grid_maps[t].n = num_probes(JobBox(job.doc))
                /\ \A x \in DOMAIN grid_maps[t].data :
                       grid_maps[t].data[x] = SlabOf(job.doc)

\* C3: once a Monte Carlo task of a ligand has started, every grid-map task
\* of the ligand's batch has completed (each slab of each missing type was
\* written) and every map the ligand uses is fully populated.
C3_GridMapsBeforeMonteCarlo ==
    McStarted =>
        /\ \A k \in DOMAIN gm_tasks : gm_tasks[k].st = "done"
        /\ \A c \in DOMAIN gm_writes : gm_writes[c] >= 1
        /\ DOMAIN gm_writes =
               lig_missing \X (1 .. num_probes(JobBox(job.doc))[1])
        /\ \A t \in lig.types :
               /\ initialized(grid_maps[t])
               /\ \A x \in DOMAIN grid_maps[t].data : grid_maps[t].data[x] # Zero

\* A Monte Carlo task runs for a ligand that triggered grid-map population.
C3_Witness == McStarted /\ lig_missing # {}

\* C4: the tasks of one dispatch write pairwise disjoint slabs, one task per
\* x in [0, num_probes[0]); no cell is written twice, and when the batch is
\* over every cell of every populated map was written exactly once.
C4_DisjointSlabs ==
    /\ gm_tasks # <<>> =>
          /\ \A j, k \in DOMAIN gm_tasks :
                 j # k => GmWriteSet(gm_tasks[j]) \cap GmWriteSet(gm_tasks[k]) = {}
          /\ UNION {GmWriteSet(gm_tasks[k]) : k \in DOMAIN gm_tasks} =
                 atom_types_to_populate \X (1 .. num_probes(JobBox(job.doc))[1])
    /\ \A c \in DOMAIN gm_writes : gm_writes[c] <= 1
    /\ pc \in {"mc_create", "merge", "mc_sync", "emit"} =>
          /\ DOMAIN gm_writes =
                 lig_missing \X (1 .. num_probes(JobBox(job.doc))[1])
          /\ \A c \in DOMAIN gm_writes : gm_writes[c] = 1

\* Two grid-map tasks run at the same time and one more has written.
C4_Witness ==
    /\ Cardinality(Running(gm_tasks)) = 2
    /\ \E c \in DOMAIN gm_writes : gm_writes[c] = 1

\* C6: a map that is initialized and not among the types the current ligand
\* populates is not changed by any step.
C6_InitializedMapsUnchanged ==
    [][\A t \in Types :
          (initialized(grid_maps[t]) /\ t \notin atom_types_to_populate)
              => grid_maps'[t] = grid_maps[t]]_vars

\* A later ligand's batch is complete: its new type is populated beside a
\* type that was populated before.
C6_Witness ==
    /\ pc = "gm_sync"
    /\ PoolIdle(gm_tasks)
    /\ \A k \in DOMAIN gm_tasks : gm_tasks[k].st = "done"
    /\ \E t \in lig.types \ atom_types_to_populate : initialized(grid_maps[t])

\* The merged list after the lists of tasks 1 .. n were merged in task-index
\* order, each task's list being what its seed decides.
RECURSIVE MergedUpTo(_, _, _)
MergedUpTo(l, tasks, n) ==
    IF n = 0 THEN <<>>
    ELSE AddAll(MergedUpTo(l, tasks, n - 1), monte_carlo_task(l, tasks[n].seed),
                required_square_error(l), results_capacity)

MergedInTaskOrderWhenMapsFit ==
    (pc \in {"merge", "mc_sync"} /\ ~ReadsOutOfRange(lig, grid_maps, JobBox(job.doc)))
        => results = MergedUpTo(lig, mc_tasks, gi)

Unfinished(ts) == {k \in DOMAIN ts : ts[k].st \in {"queued", "running"}}

\* The main thread's step that reads, moves from and clears the list of
\* task gi + 1.
MainReadsList == pc = "merge" /\ gi' = gi + 1

\* C12: while task i is dispatched and has not finished, result_containers[i]
\* is changed by nothing but the task itself, and the main thread does not
\* read or clear it.
C12_TaskOwnsItsList ==
    [][/\ \A i \in Unfinished(mc_tasks) :
              \/ result_containers'[i] = result_containers[i]
              \/ mc_tasks[i].st = "running" /\ mc_tasks'[i].st = "done"
       /\ MainReadsList => (gi + 1) \notin Unfinished(mc_tasks)]_vars

\* The main thread waits for the future of a running task whose list is
\* still the task's own, while another task has already left its results.
C12_Witness ==
    /\ pc = "merge"
    /\ (gi + 1) \in Running(mc_tasks)
    /\ \E k \in DOMAIN mc_tasks :
          mc_tasks[k].st = "done" /\ result_containers[k] # <<>>

C15_PropagatedAfterAllAwaited ==
    pc = "aborted" => Unfinished(gm_tasks) = {}

\* C20: no grid map is written (resized or filled) while a Monte Carlo task
\* is dispatched and not finished; the grid-map step of a ligand begins with
\* no Monte Carlo task left, and Monte Carlo tasks are dispatched with no
\* grid-map task left unfinished.
C20_NoMapWriteDuringMonteCarlo ==
    /\ [](pc = "resize" => mc_tasks = <<>>)
    /\ [](mc_tasks # <<>> => Unfinished(gm_tasks) = {})
    /\ [][grid_maps' # grid_maps => Unfinished(mc_tasks) = {}]_vars

\* The Monte Carlo tasks of a later ligand of the job run after the ligand's
\* own grid-map batch wrote a map, beside a map of an earlier ligand.
C20_Witness ==
    /\ lig_i >= 1
    /\ Running(mc_tasks) # {}
    /\ lig_missing # {}
    /\ lig_missing # lig.types

\* C22: the emptiness assertions of the ligand loop hold wherever the main
\* thread stands at them: atom_types_to_populate before the resize loop,
\* gm_tasks before the grid-map tasks are created, mc_tasks and every
\* result_containers[i] before the Monte Carlo tasks are created, results
\* before the merge loop.
C22_EmptinessAssertionsHold ==
    /\ pc = "resize" => atom_types_to_populate = {}
    /\ pc = "gm_create" => gm_tasks = <<>>
    /\ pc = "mc_create" =>
          /\ mc_tasks = <<>>
          /\ \A i \in Tasks : result_containers[i] = <<>>
    /\ (pc = "merge" /\ gi = 0) => results = <<>>

\* The second ligand of the second job stands before the merge loop; it
\* needed no grid map, and an earlier ligand of this job had a grid-map batch
\* and a Monte Carlo batch.
C22_Witness ==
    /\ pc = "merge" /\ gi = 0
    /\ job.id = 2 /\ lig_i = 1
    /\ lig_missing = {}
    /\ \E t \in Types : gm_dispatches[t] > 0

\* ================================================================
\* SpecResults: the result lists of one ligand.  Each Monte Carlo task in
\* turn fills its own list through add_to_result_container with whatever
\* conformations it accepts; the main thread merges that list into results
\* and clears it (tasks are merged in task-index order, each after its own
\* future); after the last task the front of results is the best result.
\* ================================================================
\* Accepted conformations a task may still add to its list.
MaxAdds == 3

\* Heavy-atom positions and energies of the conformations.  With one heavy
\* atom the cluster threshold is 4: 0, 1, 2 are chained neighbours (0 and 2
\* are not in one cluster), 2, 4, 6 are far from each other.
Positions == {0, 1, 2, 4, 6}
Energies == {0, 1}
ResultDomain == {Result(p, e) : p \in Positions, e \in Energies}

\* The ligand of SpecResults.
RcLigand == [types |-> {0}, num_heavy_atoms |-> 1]

RcInit ==
    /\ rc_pc = "mc" /\ rc_i = 1 /\ rc_n = 0
    /\ rc_out = <<>> /\ rc_results = <<>>
    /\ WorkerInit /\ OrdIdle /\ GeoIdle /\ JobIdle

\* monte_carlo_task accepts a conformation.
RcAccept ==
    /\ rc_pc = "mc"
    /\ rc_n < MaxAdds
    /\ \E r \in ResultDomain :
          rc_out' = add_to_result_container(rc_out, r, required_square_error(RcLigand),
                                            task_results_capacity)
    /\ rc_n' = rc_n + 1
    /\ UNCHANGED <<rc_pc, rc_i, rc_results, wvars, ordvars, geovars, jobvars>>

\* The task is over; after its get() the main thread merges and clears its list.
RcMerge ==
    /\ rc_pc = "mc"
    /\ rc_results' = MergeTaskResults(rc_results, rc_out, required_square_error(RcLigand))
    /\ rc_out' = <<>>
    /\ rc_n' = 0
    /\ rc_i' = IF rc_i = num_mc_tasks THEN rc_i ELSE rc_i + 1
    /\ rc_pc' = IF rc_i = num_mc_tasks THEN "front" ELSE "mc"
    /\ UNCHANGED <<wvars, ordvars, geovars, jobvars>>

\* results.front() was taken (or the list was empty); results.clear() and
\* the next ligand.
RcFront ==
    /\ rc_pc = "front"
    /\ rc_results' = <<>>
    /\ rc_i' = 1
    /\ rc_pc' = "mc"
    /\ UNCHANGED <<rc_n, rc_out, wvars, ordvars, geovars, jobvars>>

RcNext == RcAccept \/ RcMerge \/ RcFront

SpecResults == RcInit /\ [][RcNext]_vars

SortedByF(c) == \A j, k \in 1 .. Len(c) : j < k => c[j].f <= c[k].f

NoTwoInOneCluster(c, S) ==
    \A j, k \in 1 .. Len(c) : j < k => ~(distance_sqr(c[j], c[k]) < S)

\* C7: no two elements of a result list are within the cluster threshold
\* of each other.
C7_NoTwoWithinThreshold ==
    /\ NoTwoInOneCluster(rc_out, required_square_error(RcLigand))
    /\ NoTwoInOneCluster(rc_results, required_square_error(RcLigand))

\* C8: a task's list and the merged list are sorted by f ascending, and
\* when the front of the merged list is taken it is a minimum of f.
C8_SortedByF ==
    /\ SortedByF(rc_out)
    /\ SortedByF(rc_results)
    /\ (rc_pc = "front" /\ rc_results # <<>>) =>
          \A k \in 1 .. Len(rc_results) : rc_results[1].f <= rc_results[k].f

\* The merged list holds results of different energy, merged from two tasks
\* out of energy order.
C8_Witness ==
    /\ rc_pc = "front"
    /\ Len(rc_results) >= 2
    /\ rc_results[1].f < rc_results[Len(rc_results)].f

OrdLen == 3

\* Inputs: chained neighbours 0, 1, 2 and a far position; the energies of
\* one input list are pairwise different, so every best-f representative
\* is unique.
OrdPositions == {0, 1, 2, 6}
OrdEnergies == 0 .. OrdLen - 1
OrdDomain == {Result(p, e) : p \in OrdPositions, e \in OrdEnergies}

OrdLigand == [types |-> {0}, num_heavy_atoms |-> 1]

Swap(X, i, j) ==
    [k \in DOMAIN X |-> IF k = i THEN X[j] ELSE IF k = j THEN X[i] ELSE X[k]]

OrdInit ==
    /\ \E X \in [1 .. OrdLen -> OrdDomain] :
          /\ \A i, j \in 1 .. OrdLen : i # j => X[i].f # X[j].f
          /\ \E i, j \in 1 .. OrdLen :
                /\ i < j
                /\ distance_sqr(X[i], X[j]) < required_square_error(OrdLigand)
                /\ ord_x = X
                /\ ord_y = Swap(X, i, j)
    /\ ord_cx = <<>> /\ ord_cy = <<>>
    /\ WorkerInit /\ RcIdle /\ GeoIdle /\ JobIdle

\* The next input of either order is added to its container.
OrdAdd ==
    /\ ord_x # <<>>
    /\ ord_cx' = add_to_result_container(ord_cx, Head(ord_x),
                  required_square_error(OrdLigand), task_results_capacity)
    /\ ord_cy' = add_to_result_container(ord_cy, Head(ord_y),
                  required_square_error(OrdLigand), task_results_capacity)
    /\ ord_x' = Tail(ord_x)
    /\ ord_y' = Tail(ord_y)
    /\ UNCHANGED <<wvars, rcvars, geovars, jobvars>>

OrdNext == OrdAdd

SpecOrder == OrdInit /\ [][OrdNext]_vars

\* C10: when all inputs are in, the two insertion orders, which differ
\* only in the order of two inputs of one cluster, gave the same list.
C10_OrderIndependent == ord_x = <<>> => ord_cx = ord_cy

\* ================================================================
\* SpecGridMap: the numbers of one grid-map dispatch.  Lengths are integers
\* in units of one grid (grid_granularity); the box has corner1 at the
\* origin.  Partition corners are fractions of a grid, so distances to them
\* are compared after scaling every length by Scale(b).
\* ================================================================
\* The unit of length.
grid_granularity == 1
\* box::Default_Partition_Granularity, in grids.
Default_Partition_Granularity == 2
\* scoring_function::Cutoff, in grids.
Cutoff == 2
\* Largest number of grids along x of a box of SpecGridMap.
GeoMaxGrids == 4
\* Receptor atoms lie on the x axis, GeoMargin grids around the box at most.
GeoMargin == 2

Dims == 1 .. 3

\* box::span, corner1, corner2
span(b) == [d \in Dims |-> b.num_grids[d] * grid_granularity]
corner1(b) == [d \in Dims |-> 0]
corner2(b) == [d \in Dims |-> corner1(b)[d] + span(b)[d]]

\* box::num_partitions: the least number of partitions no larger than the
\* default granularity.
num_partitions(b) ==
    [d \in Dims |-> (span(b)[d] + Default_Partition_Granularity - 1)
                       \div Default_Partition_Granularity]

\* Lengths times Scale(b) are integers at every partition corner.
Scale(b) == num_partitions(b)[1] * num_partitions(b)[2] * num_partitions(b)[3]
Scaled(b, p) == [d \in Dims |-> Scale(b) * p[d]]

\* box::grid_corner1(index)
grid_corner1(b, index) ==
    [d \in Dims |-> corner1(b)[d] + index[d] * grid_granularity]

\* box::partition_corner1(index), times Scale(b):
\* corner1 + index * partition_size, partition_size = span / num_partitions.
partition_corner1(b, index) ==
    [d \in Dims |-> Scale(b) * corner1(b)[d]
                    + index[d] * span(b)[d] * (Scale(b) \div num_partitions(b)[d])]

\* box::partition_index(coordinate): floor((p - corner1) / partition_size)
partition_index(b, p) ==
    [d \in Dims |-> ((p[d] - corner1(b)[d]) * num_partitions(b)[d]) \div span(b)[d]]

Sqr(v) == v * v

\* Squared distance of two coordinates.
vec_distance_sqr(p, q) == Sqr(p[1] - q[1]) + Sqr(p[2] - q[2]) + Sqr(p[3] - q[3])

\* box::project_distance_sqr(corner1, corner2, coordinate)
Shortfall(lo, hi, v) == IF v < lo THEN lo - v ELSE IF v > hi THEN v - hi ELSE 0
project_distance_sqr(c1, c2, p) ==
    Sqr(Shortfall(c1[1], c2[1], p[1])) + Sqr(Shortfall(c1[2], c2[2], p[2]))
        + Sqr(Shortfall(c1[3], c2[3], p[3]))

\* box::within_cutoff(coordinate)
within_cutoff_box(b, p) ==
    project_distance_sqr(corner1(b), corner2(b), p) <= Sqr(Cutoff)

\* box::within_cutoff(corner1, corner2, coordinate), the corners scaled.
within_cutoff(b, c1, c2, p) ==
    project_distance_sqr(c1, c2, Scaled(b, p)) <= Sqr(Scale(b) * Cutoff)

\* scoring_function::operator()(t1, t2, r2).e: symmetric, zero from Cutoff on.
sf_e(t1, t2, r2) == IF r2 < Sqr(Cutoff) THEN (t1 + t2 + 1) * (Sqr(Cutoff) - r2) ELSE 0

\* The indices of an array3d of the given sizes (0-based).
Indices(n) == (0 .. n[1] - 1) \X (0 .. n[2] - 1) \X (0 .. n[3] - 1)

\* Divide the box into coarse-grained partitions: the receptor atoms within
\* cutoff of the box, each allocated to every partition it is within cutoff of.
Partitioning(b, rec) ==
    LET R == SelectSeq([i \in 1 .. Len(rec) |-> i],
                       LAMBDA i : within_cutoff_box(b, rec[i].coordinate))
    IN  [index \in Indices(num_partitions(b)) |->
            LET c1 == partition_corner1(b, index)
                c2 == partition_corner1(b, [d \in Dims |-> index[d] + 1])
            IN  SelectSeq(R, LAMBDA i : within_cutoff(b, c1, c2, rec[i].coordinate))]

\* The energy of a probe of type t at p against the atoms of a list.
RECURSIVE ProbeEnergy(_, _, _, _)
ProbeEnergy(t, p, rec, atoms) ==
    IF atoms = <<>> THEN 0
    ELSE LET a == rec[Head(atoms)]
             r2 == vec_distance_sqr(p, a.coordinate)
         IN  (IF r2 >= Sqr(Cutoff) THEN 0 ELSE sf_e(t, a.type, r2))
             + ProbeEnergy(t, p, rec, Tail(atoms))

\* What partitions(index) yields: the cell's list, or, for an index outside
\* the array, whatever lies there: another cell's list or an empty vector.
PartitionReads(b, partitions, index) ==
    IF index \in DOMAIN partitions
    THEN {partitions[index]}
    ELSE {partitions[c] : c \in DOMAIN partitions} \cup {<<>>}

\* The brute-force sum over all receptor atoms within cutoff of the probe.
BruteForce(t, b, rec, index) ==
    ProbeEnergy(t, grid_corner1(b, index), rec, [i \in 1 .. Len(rec) |-> i])

GeoAtoms ==
    {[type |-> t, coordinate |-> <<x, 0, 0>>] :
        t \in Types, x \in (0 - GeoMargin) .. (GeoMaxGrids + GeoMargin)}
GeoReceptors ==
    {<<a>> : a \in GeoAtoms} \cup {<<a, c>> : a \in GeoAtoms, c \in GeoAtoms}
GeoBoxes == {[num_grids |-> <<nx, 1, 1>>] : nx \in 1 .. GeoMaxGrids}

GeoInit ==
    /\ geo_pc = "start"
    /\ geo_box \in GeoBoxes
    /\ geo_rec \in GeoReceptors
    /\ geo_partitions = <<>>
    /\ geo_maps = <<>>
    /\ geo_x = 0
    /\ WorkerInit /\ RcIdle /\ OrdIdle /\ JobIdle

\* The partitioning block of main, and the resize of every type's map.
GeoPartition ==
    /\ geo_pc = "start"
    /\ geo_partitions' = Partitioning(geo_box, geo_rec)
    /\ geo_maps' = [t \in Types |-> [index \in Indices(num_probes(geo_box)) |-> 0]]
    /\ geo_pc' = "tasks"
    /\ UNCHANGED <<geo_box, geo_rec, geo_x, wvars, rcvars, ordvars, jobvars>>

\* grid_map_task for x = geo_x: every probe of the slab adds up the atoms of
\* the partition list found at its partition index.
GeoTask ==
    /\ geo_pc = "tasks"
    /\ \E outside \in PartitionReads(geo_box, geo_partitions, <<-1, -1, -1>>) :
          geo_maps' = [t \in Types |-> [index \in DOMAIN geo_maps[t] |->
              IF index[1] # geo_x THEN geo_maps[t][index]
              ELSE LET p == grid_corner1(geo_box, index)
                       pi == partition_index(geo_box, p)
                       atoms == IF pi \in DOMAIN geo_partitions
                                THEN geo_partitions[pi] ELSE outside
                   IN  geo_maps[t][index] + ProbeEnergy(t, p, geo_rec, atoms)]]
    /\ geo_x' = geo_x + 1
    /\ geo_pc' = IF geo_x + 1 = num_gm_tasks(geo_box) THEN "done" ELSE "tasks"
    /\ UNCHANGED <<geo_box, geo_rec, geo_partitions, wvars, rcvars, ordvars, jobvars>>

GeoNext == GeoPartition \/ GeoTask

SpecGridMap == GeoInit /\ [][GeoNext]_vars

\* C5: after the dispatch every cell of every populated map equals the
\* brute-force sum over all receptor atoms within cutoff of its probe.
C5_EqualsBruteForce ==
    geo_pc = "done" =>
        \A t \in Types : \A index \in Indices(num_probes(geo_box)) :
            geo_maps[t][index] = BruteForce(t, geo_box, geo_rec, index)

\* The probes inside the half-open box, whose partition exists, do hold the
\* brute-force sum.
GeoInsideEqualsBruteForce ==
    geo_pc = "done" =>
        \A t \in Types : \A index \in Indices(geo_box.num_grids) :
            geo_maps[t][index] = BruteForce(t, geo_box, geo_rec, index)

\* The probes the grid-map tasks have visited so far.
VisitedProbes == {index \in Indices(num_probes(geo_box)) : index[1] < geo_x}

\* C21: the partition index of every probe a grid-map task has visited,
\* those on the corner2 faces included, lies component-wise in
\* [0, num_partitions).
C21_PartitionIndexInRange ==
    geo_pc \in {"tasks", "done"} =>
        \A index \in VisitedProbes :
            partition_index(geo_box, grid_corner1(geo_box, index))
                \in Indices(num_partitions(geo_box))

\* The visited probes inside the half-open box do have their partition index
\* in range, and those on a corner2 face have num_partitions in that
\* dimension.
InsideProbesIndexInRange ==
    geo_pc \in {"tasks", "done"} =>
        \A index \in VisitedProbes :
            LET pi == partition_index(geo_box, grid_corner1(geo_box, index))
            IN  \A d \in Dims :
                    IF index[d] < geo_box.num_grids[d]
                    THEN pi[d] \in 0 .. num_partitions(geo_box)[d] - 1
                    ELSE pi[d] = num_partitions(geo_box)[d]

\* ================================================================
\* SpecLigands: the ligand loop of one slice with its csv.  Each ligand's
\* first line is read and filtered; a ligand that passes is parsed and
\* docked (the resize loop, the grid-map batch for the missing types, the
\* Monte Carlo batch and the merge in task-index order, as in Spec) in one
\* step; a non-empty merged list gives one csv line.
\* ================================================================
\* The filtered fields of a ligand's first line.
Props == {"mwt", "logp", "ad", "pd", "hbd", "hba", "tpsa", "charge", "nrb"}

\* The default values of the optional arguments.
default_lb ==
    [mwt |-> 400, logp |-> -1, ad |-> -50, pd |-> -150, hbd |-> 1, hba |-> 1,
     tpsa |-> 20, charge |-> 0, nrb |-> 2]
default_ub ==
    [mwt |-> 500, logp |-> 6, ad |-> 50, pd |-> 0, hbd |-> 6, hba |-> 10,
     tpsa |-> 80, charge |-> 0, nrb |-> 9]

\* Job documents with an odd number carry every filter bound, DocLb and
\* DocUb for each field; the others carry none.
DocLb == 1
DocUb == 2
DocHasBounds(d) == d % 2 = 1

\* p["x_lb"].ok() ? p["x_lb"].Double() : default_x_lb, the fallback of the
\* charge bounds being default_nrb_lb and default_nrb_ub.
FilterLb(d) ==
    [q \in Props |-> IF DocHasBounds(d) THEN DocLb
                     ELSE IF q = "charge" THEN default_lb["nrb"] ELSE default_lb[q]]
FilterUb(d) ==
    [q \in Props |-> IF DocHasBounds(d) THEN DocUb
                     ELSE IF q = "charge" THEN default_ub["nrb"] ELSE default_ub[q]]

\* The filtering condition with the bounds excluded.
PassesFilters_strict(l, d) ==
    \A q \in Props : FilterLb(d)[q] < l[q] /\ l[q] < FilterUb(d)[q]

\* The filtering condition of the ligand loop.
PassesFilters(l, d) ==
    \A q \in Props : FilterLb(d)[q] <= l[q] /\ l[q] <= FilterUb(d)[q]

\* First lines of ligands: every field on its lower bound but one, which is
\* below, on or above a bound.
LigandLines(d) ==
    UNION {{[r \in Props |-> IF r = q THEN v ELSE FilterLb(d)[r]] :
                v \in {FilterLb(d)[q] - 1, FilterLb(d)[q],
                       FilterUb(d)[q], FilterUb(d)[q] + 1}} : q \in Props}

\* lig.flexibility_penalty_factor of the ligands of the model.
FlexPenalty == 2

\* The '\n' written to the csv.
Newline == [text |-> "\n"]

\* What a read through a dangling reference may yield besides the old value.
Garbage == 0 - 1

\* The maps of the missing types after their grid-map batch.
PopulatedMaps(maps, missing, d) ==
    [t \in Types |->
        IF t \in missing
        THEN [n |-> num_probes(JobBox(d)),
              data |-> [x \in 1 .. num_probes(JobBox(d))[1] |-> SlabOf(d)]]
        ELSE maps[t]]

\* The Monte Carlo batch drawn at engine position e.
SeededTasks(e) == [i \in Tasks |-> [seed |-> (e + i - 1) % EngPeriod]]

SliceInit ==
    /\ sl_pc = "ligand"
    /\ sl_doc \in Docs
    /\ sl_i = 0
    /\ line = NoLine
    /\ sl_lig = NoLigand
    /\ sl_maps = [t \in Types |-> EmptyMap]
    /\ sl_eng = 0
    /\ sl_dispatched = 0
    /\ sl_results = <<>>
    /\ best_result = NoResult
    /\ csv = <<Newline>>
    /\ survivors = <<>>
    /\ WorkerInit /\ RcIdle /\ OrdIdle /\ GeoIdle /\ ClIdle /\ StIdle

\* getline(ligands, line) and the right_cast of its fields.
SlReadLine ==
    /\ sl_pc = "ligand"
    /\ sl_i < MaxLigs
    /\ line' \in LigandLines(sl_doc)
    /\ sl_pc' = "filter"
    /\ UNCHANGED <<sl_doc, sl_i, sl_lig, sl_maps, sl_eng, sl_dispatched,
                   sl_results, best_result, csv, survivors,
                   wvars, rcvars, ordvars, geovars, clvars, stvars>>

\* if (!(lb <= v && v <= ub ...)) continue;
SlFilterSkip ==
    /\ sl_pc = "filter"
    /\ ~PassesFilters(line, sl_doc)
    /\ sl_i' = sl_i + 1
    /\ sl_pc' = "ligand"
    /\ UNCHANGED <<sl_doc, line, sl_lig, sl_maps, sl_eng, sl_dispatched,
                   sl_results, best_result, csv, survivors,
                   wvars, rcvars, ordvars, geovars, clvars, stvars>>

\* The ligand passes: it is parsed, the maps of its missing types are resized
\* and populated by one grid-map batch, num_mc_tasks seeds are drawn, the
\* Monte Carlo batch runs and its lists are merged in task-index order.
SlDock ==
    /\ sl_pc = "filter"
    /\ PassesFilters(line, sl_doc)
    /\ \E ts \in SUBSET Types :
          /\ ts # {}
          /\ LET l == [types |-> ts, num_heavy_atoms |-> 1,
                       flexibility_penalty_factor |-> FlexPenalty]
                 missing == MissingTypes(l, sl_maps)
             IN  /\ sl_lig' = l
                 /\ sl_maps' = PopulatedMaps(sl_maps, missing, sl_doc)
                 /\ sl_dispatched' =
                        sl_dispatched + num_mc_tasks
                        + (IF missing = {} THEN 0 ELSE num_gm_tasks(JobBox(sl_doc)))
                 /\ sl_results' = MergedUpTo(l, SeededTasks(sl_eng), num_mc_tasks)
    /\ sl_eng' = (sl_eng + num_mc_tasks) % EngPeriod
    /\ sl_pc' = "emit"
    /\ UNCHANGED <<sl_doc, sl_i, line, best_result, csv, survivors,
                   wvars, rcvars, ordvars, geovars, clvars, stvars>>

\* The ligand passes and a task of its grid-map batch throws: get() rethrows
\* in main and the process ends.
SlDockFail ==
    /\ sl_pc = "filter"
    /\ PassesFilters(line, sl_doc)
    /\ \E ts \in SUBSET Types :
          /\ ts # {}
          /\ LET l == [types |-> ts, num_heavy_atoms |-> 1,
                       flexibility_penalty_factor |-> FlexPenalty]
                 missing == MissingTypes(l, sl_maps)
             IN  /\ missing # {}
                 /\ sl_lig' = l
                 /\ sl_maps' = ResizedMaps(sl_maps, missing, JobBox(sl_doc))
                 /\ sl_dispatched' = sl_dispatched + num_gm_tasks(JobBox(sl_doc))
    /\ sl_pc' = "aborted"
    /\ UNCHANGED <<sl_doc, sl_i, line, sl_eng, sl_results, best_result, csv,
                   survivors, wvars, rcvars, ordvars, geovars, clvars, stvars>>

\* if (!num_results) continue;
SlSkipEmpty ==
    /\ sl_pc = "emit"
    /\ sl_results = <<>>
    /\ sl_i' = sl_i + 1
    /\ sl_lig' = NoLigand
    /\ sl_pc' = "ligand"
    /\ UNCHANGED <<sl_doc, line, sl_maps, sl_eng, sl_dispatched, sl_results,
                   best_result, csv, survivors,
                   wvars, rcvars, ordvars, geovars, clvars, stvars>>

\* result& best_result = results.front(); best_result.e_nd = best_result.f *
\* lig.flexibility_penalty_factor; results.clear(): the element best_result
\* refers to is destroyed.
SlEmitBest ==
    /\ sl_pc = "emit"
    /\ sl_results # <<>>
    /\ LET e_nd == sl_results[1].f * sl_lig.flexibility_penalty_factor
       IN  /\ best_result' = [held |-> FALSE, e_nd |-> e_nd]
           /\ survivors' = Append(survivors, [id |-> sl_i, e_nd |-> e_nd])
    /\ sl_results' = <<>>
    /\ sl_pc' = "dump"
    /\ UNCHANGED <<sl_doc, sl_i, line, sl_lig, sl_maps, sl_eng, sl_dispatched,
                   csv, wvars, rcvars, ordvars, geovars, clvars, stvars>>

\* What reading r.e_nd yields: the value while the element is held, anything
\* once it was destroyed.
ReadBestResult(r) == IF r.held THEN {r.e_nd} ELSE {r.e_nd, Garbage}

\* csv << zinc_id << ',' << best_result.e_nd << '\n'; the ligand goes out of
\* scope.
SlEmitDump ==
    /\ sl_pc = "dump"
    /\ \E v \in ReadBestResult(best_result) :
          csv' = csv \o <<[id |-> sl_i, e_nd |-> v], Newline>>
    /\ best_result' = NoResult
    /\ sl_lig' = NoLigand
    /\ sl_i' = sl_i + 1
    /\ sl_pc' = "ligand"
    /\ UNCHANGED <<sl_doc, line, sl_maps, sl_eng, sl_dispatched, sl_results,
                   survivors, wvars, rcvars, ordvars, geovars, clvars, stvars>>

\* i == end_lig: csv.close(); ligands.close();
SlClose ==
    /\ sl_pc = "ligand"
    /\ sl_i = MaxLigs
    /\ sl_pc' = "closed"
    /\ UNCHANGED <<sl_doc, sl_i, line, sl_lig, sl_maps, sl_eng, sl_dispatched,
                   sl_results, best_result, csv, survivors,
                   wvars, rcvars, ordvars, geovars, clvars, stvars>>

SliceNext ==
    \/ SlReadLine \/ SlFilterSkip \/ SlDock \/ SlDockFail
    \/ SlSkipEmpty \/ SlEmitBest \/ SlEmitDump \/ SlClose

SpecLigands == SliceInit /\ [][SliceNext]_vars

\* ------------------------------------------------ claims under SpecLigands
\* Some field of the line is below its lower bound or above its upper bound.
FailsSomeFilter(l, d) ==
    \E q \in Props : l[q] < FilterLb(d)[q] \/ l[q] > FilterUb(d)[q]

RECURSIVE CsvLines(_)
CsvLines(c) ==
    IF c = <<>> THEN <<>>
    ELSE LET n == CHOOSE k \in 1 .. Len(c) + 1 :
                     /\ k = Len(c) + 1 \/ c[k] = Newline
                     /\ \A m \in 1 .. k - 1 : c[m] # Newline
         IN  IF n > Len(c) THEN <<>>
             ELSE <<SubSeq(c, 1, n - 1)>> \o CsvLines(SubSeq(c, n + 1, Len(c)))

\* C17: between two ligands and at the end of the slice the csv has exactly
\* one newline-terminated line per surviving ligand, in ligand-index order,
\* each line being that ligand's record, and no other line.
C17_OneLinePerSurvivor ==
    sl_pc \in {"ligand", "closed"} =>
        /\ Len(CsvLines(csv)) = Len(survivors)
        /\ \A k \in 1 .. Len(survivors) :
              /\ Len(CsvLines(csv)[k]) = 1
              /\ CsvLines(csv)[k][1].id = survivors[k].id

\* The same, after the first line of the csv.
CsvHasOneLinePerSurvivorAfterFirstLine ==
    sl_pc \in {"ligand", "closed"} =>
        /\ Len(CsvLines(csv)) = Len(survivors) + 1
        /\ CsvLines(csv)[1] = <<>>
        /\ \A k \in 1 .. Len(survivors) :
              /\ Len(CsvLines(csv)[k + 1]) = 1
              /\ CsvLines(csv)[k + 1][1].id = survivors[k].id
              /\ \A m \in 1 .. k - 1 : survivors[m].id < survivors[k].id

\* The records of the csv.
CsvRecords(c) == SelectSeq(c, LAMBDA x : x # Newline)

\* C18: the value on a ligand's csv line is f * flexibility_penalty_factor of
\* the front of its merged list, and when that value is read for the csv the
\* element it is read from is still held by results.
C18_BestResultHeldWhenRead ==
    /\ sl_pc = "dump" => best_result.held
    /\ \A k \in 1 .. Len(CsvRecords(csv)) :
          k <= Len(survivors) => CsvRecords(csv)[k].e_nd = survivors[k].e_nd

\* The value computed for a surviving ligand is f * flexibility_penalty_factor
\* of the lowest-f element of its merged list.
BestValueComputed ==
    sl_pc = "dump" =>
        /\ best_result.e_nd = survivors[Len(survivors)].e_nd
        /\ \E seeds \in {0, num_mc_tasks} :
              LET rs == MergedUpTo(sl_lig, SeededTasks(seeds), num_mc_tasks)
              IN  /\ rs # <<>>
                  /\ best_result.e_nd = rs[1].f * FlexPenalty
                  /\ \A m \in 1 .. Len(rs) : rs[1].f <= rs[m].f

\* ================================================================
\* SpecClaim: several workers, each running main's job loop, against one
\* istar.jobs collection.  A worker queries for a job with progress 0, then
\* sends the $inc update of progress for the _id the cursor returned, then
\* executes the job and queries again.
\* ================================================================
NumWorkers == 2
Workers == 1 .. NumWorkers

ClaimInit ==
    /\ cl_progress = [j \in JobIds |-> 0]
    /\ cl_pc = [w \in Workers |-> "fetch"]
    /\ cl_job = [w \in Workers |-> 0]
    /\ cl_takers = [j \in JobIds |-> {}]
    /\ cl_incs = [j \in JobIds |-> 0]
    /\ WorkerInit /\ RcIdle /\ OrdIdle /\ GeoIdle /\ SlIdle /\ StIdle

\* c.query("istar.jobs", QUERY("progress" << 0), 1) returns a job.
ClQuery(w) ==
    /\ cl_pc[w] = "fetch"
    /\ \E j \in JobIds :
          /\ cl_progress[j] = 0
          /\ \A k \in 1 .. j - 1 : cl_progress[k] # 0
          /\ cl_job' = [cl_job EXCEPT ![w] = j]
    /\ cl_pc' = [cl_pc EXCEPT ![w] = "update"]
    /\ UNCHANGED <<cl_progress, cl_takers, cl_incs,
                   wvars, rcvars, ordvars, geovars, slvars, stvars>>

\* c.update("istar.jobs", {_id, $atomic}, {$inc: {progress: 1}}), then the
\* worker goes on to execute the job.
ClUpdate(w) ==
    /\ cl_pc[w] = "update"
    /\ cl_progress' = [cl_progress EXCEPT ![cl_job[w]] = @ + 1]
    /\ cl_incs' = [cl_incs EXCEPT ![cl_job[w]] = @ + 1]
    /\ cl_takers' = [cl_takers EXCEPT ![cl_job[w]] = @ \cup {w}]
    /\ cl_pc' = [cl_pc EXCEPT ![w] = "slice"]
    /\ UNCHANGED <<cl_job, wvars, rcvars, ordvars, geovars, slvars, stvars>>

\* The slice is done: back to the head of the job loop.
ClSliceDone(w) ==
    /\ cl_pc[w] = "slice"
    /\ cl_pc' = [cl_pc EXCEPT ![w] = "fetch"]
    /\ cl_job' = [cl_job EXCEPT ![w] = 0]
    /\ UNCHANGED <<cl_progress, cl_takers, cl_incs,
                   wvars, rcvars, ordvars, geovars, slvars, stvars>>

\* No pending job: sleep for an hour and query again.
ClSleep(w) ==
    /\ cl_pc[w] = "fetch"
    /\ \A j \in JobIds : cl_progress[j] # 0
    /\ cl_pc' = [cl_pc EXCEPT ![w] = "sleep"]
    /\ UNCHANGED <<cl_progress, cl_job, cl_takers, cl_incs,
                   wvars, rcvars, ordvars, geovars, slvars, stvars>>

ClWake(w) ==
    /\ cl_pc[w] = "sleep"
    /\ cl_pc' = [cl_pc EXCEPT ![w] = "fetch"]
    /\ UNCHANGED <<cl_progress, cl_job, cl_takers, cl_incs,
                   wvars, rcvars, ordvars, geovars, slvars, stvars>>

ClaimNext ==
    \E w \in Workers :
        \/ ClQuery(w) \/ ClUpdate(w) \/ ClSliceDone(w)
        \/ ClSleep(w) \/ ClWake(w)

SpecClaim == ClaimInit /\ [][ClaimNext]_vars

\* --------------------------------------------------- claims under SpecClaim
\* C14: a job is executed by at most one worker, and its progress, raised
\* once by each worker that took it, is the number of its takers.
C14_JobTakenByAtMostOneWorker ==
    \A j \in JobIds :
        /\ Cardinality(cl_takers[j]) <= 1
        /\ cl_progress[j] = Cardinality(cl_takers[j])

\* Every worker that took a job raised its progress exactly once.
ProgressRaisedOncePerTaker ==
    \A j \in JobIds :
        /\ cl_progress[j] = cl_incs[j]
        /\ cl_incs[j] = Cardinality(cl_takers[j])

\* ================================================================
\* SpecSlices: the slice table look-ups of one job.  The job document's
\* slice field gives s; start_lig and end_lig are read from the table.
\* ================================================================
\* Number of ligands of the library.
num_ligands == 12171187

\* The initializer of const size_t slices[101].
SliceTable ==
    <<
      0, 121712, 243424, 365136, 486848, 608560, 730272, 851984, 973696,
      1095408, 1217120, 1338832, 1460544, 1582256, 1703968, 1825680,
      1947392, 2069104, 2190816, 2312528, 2434240, 2555952, 2677664,
      2799376, 2921088, 3042800, 3164512, 3286224, 3407936, 3529648,
      3651360, 3773072, 3894784, 4016496, 4138208, 4259920, 4381632,
      4503344, 4625056, 4746768, 4868480, 4990192, 5111904, 5233616,
      5355328, 5477040, 5598752, 5720464, 5842176, 5963888, 6085600,
      6207312, 6329024, 6450736, 6572448, 6694160, 6815872, 6937584,
      7059296, 7181008, 7302720, 7424432, 7546144, 7667856, 7789568,
      7911280, 8032992, 8154704, 8276416, 8398128, 8519840, 8641552,
      8763264, 8884976, 9006688, 9128400, 9250112, 9371824, 9493536,
      9615248, 9736960, 9858672, 9980384, 10102096, 10223808, 10345520,
      10467232, 10588944, 10710655, 10832366, 10954077, 11075788,
      11197499, 11319210, 11440921, 11562632, 11684343, 11806054,
      11927765, 12049476, 12171187
    >>

\* slices, indexed from 0 as in the code.
slices == [k \in 0 .. Len(SliceTable) - 1 |-> SliceTable[k + 1]]

\* The slice fields of the job documents.
SliceIds == 0 .. Len(SliceTable) - 1

\* What an element read of slices yields: the element, or for an index past
\* the array whatever lies behind it.
StrayValues == {0, num_ligands, num_ligands + 1}
ReadSlices(k) == IF k \in DOMAIN slices THEN {slices[k]} ELSE StrayValues

\* The index start_lig is read at.
SliceStartIndex(s) == s

\* The index end_lig is read at.
SliceEndIndex(s) == s + 1

SlicesInit ==
    /\ st_pc = "start"
    /\ st_s \in SliceIds
    /\ st_start_lig = 0
    /\ st_end_lig = 0
    /\ WorkerInit /\ RcIdle /\ OrdIdle /\ GeoIdle /\ SlIdle /\ ClIdle

\* const size_t start_lig = slices[s];
StReadStart ==
    /\ st_pc = "start"
    /\ st_start_lig' \in ReadSlices(SliceStartIndex(st_s))
    /\ st_pc' = "end"
    /\ UNCHANGED <<st_s, st_end_lig, wvars, rcvars, ordvars, geovars, slvars, clvars>>

\* const size_t end_lig = slices[s + 1];
StReadEnd ==
    /\ st_pc = "end"
    /\ st_end_lig' \in ReadSlices(SliceEndIndex(st_s))
    /\ st_pc' = "read"
    /\ UNCHANGED <<st_s, st_start_lig, wvars, rcvars, ordvars, geovars, slvars, clvars>>

SlicesNext == StReadStart \/ StReadEnd

SpecSlices == SlicesInit /\ [][SlicesNext]_vars

\* -------------------------------------------------- claims under SpecSlices
\* The table has 101 strictly ascending elements from 0 to num_ligands.
TableAscending ==
    /\ Len(SliceTable) = 101
    /\ slices[0] = 0
    /\ slices[100] = num_ligands
    /\ \A k \in 0 .. 99 : slices[k] < slices[k + 1]

\* C19: the table has 101 strictly ascending elements from 0 to num_ligands;
\* for every slice s in 0..100 both look-ups are inside the table and give
\* [slices[s], slices[s+1]); slice 0 covers 0..121711 and slice 100 covers
\* 12049476..12171186.
C19_EverySliceReadInsideTable ==
    /\ TableAscending
    /\ st_pc = "read" =>
          /\ SliceStartIndex(st_s) \in DOMAIN slices
          /\ SliceEndIndex(st_s) \in DOMAIN slices
          /\ st_start_lig = slices[st_s]
          /\ st_end_lig = slices[st_s + 1]
          /\ st_s = 0 => (st_start_lig = 0 /\ st_end_lig - 1 = 121711)
          /\ st_s = 100 => (st_start_lig = 12049476 /\ st_end_lig - 1 = 12171186)

\* What holds instead: the same for the slices 0..99, the last of which,
\* slice 99, covers 12049476..12171186; for s = 100 start_lig is num_ligands
\* and the look-up of end_lig is outside the table.
SlicesBelow100ReadInsideTable ==
    /\ TableAscending
    /\ st_pc = "read" =>
          /\ SliceStartIndex(st_s) \in DOMAIN slices
          /\ st_start_lig = slices[st_s]
          /\ st_s <= 99 =>
                /\ SliceEndIndex(st_s) \in DOMAIN slices
                /\ st_end_lig = slices[st_s + 1]
                /\ st_start_lig < st_end_lig
          /\ st_s = 0 => (st_start_lig = 0 /\ st_end_lig - 1 = 121711)
          /\ st_s = 99 => (st_start_lig = 12049476 /\ st_end_lig - 1 = 12171186)
          /\ st_s = 100 =>
                /\ st_start_lig = num_ligands
                /\ SliceEndIndex(st_s) \notin DOMAIN slices

====
